---- MODULE Spec2Model ----
(***************************************************************************)
(* A model of the Vulkan start-up program (Vulkanize/main.cpp): the        *)
(* VDeleter scoped handle, the queue-family and physical-device selection, *)
(* and the control flow of main() with its teardown.                       *)
(*                                                                         *)
(* The specifications share the variables:                                 *)
(*   Spec        the whole program, from main() to process exit;           *)
(*   SpecHandle  one VDeleter driven by an arbitrary client;               *)
(*   SpecQuery   findQueueFamilies applied to an arbitrary family list;    *)
(*   SpecLayers  the layer-support check on arbitrary lists of names.      *)
(* `trace` is an observation log: every operation on a handle, every call  *)
(* of a release function and every call of the external API is appended    *)
(* to it in the order the code performs them.                              *)
(***************************************************************************)
EXTENDS Integers, Sequences, FiniteSets, TLC

VARIABLES
    pc,                      \* control position of main() or of the driver
    object,                  \* VDeleter::object of every handle
    alive,                   \* the handles constructed and not yet destroyed
    slot,                    \* the T* returned by replace(), until it is written
    trace,                   \* observation log
    enableValidationLayers,  \* build configuration (NDEBUG)
    requiredLayers,          \* the layer names the support check looks for
    availableLayers,         \* what vkEnumerateInstanceLayerProperties returns
    devices,                 \* what vkEnumeratePhysicalDevices returns
    queueFamilies,           \* per device, what the queue-family query returns
    physicalDevice,          \* HelloTriangleApplication::physicalDevice
    window,                  \* "none", "open" or "destroyed"
    shouldClose,             \* glfwWindowShouldClose(window)
    error,                   \* what() of the exception in flight or caught
    exitStatus               \* << the value main() returned >>, << >> before that

vars == <<pc, object, alive, slot, trace, enableValidationLayers, requiredLayers,
          availableLayers, devices, queueFamilies, physicalDevice, window, shouldClose, error, exitStatus>>

(***************************************************************************)
(* Bounds of the model.                                                    *)
(***************************************************************************)
NumValues   == 2    \* the non-null handle values a client may assign are 1..NumValues
MaxOps      == 4    \* operations the client of SpecHandle performs before destruction
MaxFamilies == 3    \* queue families of the device of SpecQuery
MaxDevices  == 2    \* physical devices the enumeration may return
MaxLayers   == 1    \* entries of the enumerated layer list
MaxRequired == 2    \* required layer names of SpecLayers
MaxAvailable == 2   \* available layer names of SpecLayers

(***************************************************************************)
(* Program constants.                                                      *)
(***************************************************************************)
VK_NULL_HANDLE        == 0
VK_QUEUE_GRAPHICS_BIT == 1
VK_QUEUE_COMPUTE_BIT  == 2 * VK_QUEUE_GRAPHICS_BIT    \* the flag bit after it
NotFound              == -1
EXIT_SUCCESS          == 0
EXIT_FAILURE          == 1
NoStatus              == << >>    \* main() has not returned

validationLayers == << "VK_LAYER_LUNARG_standard_validation" >>

\* The member handles of HelloTriangleApplication, in declaration order.
Members == << "instance", "callback", "device" >>
Handles == {Members[i] : i \in 1..Len(Members)}

NoSlot == "none"

Values == 0..NumValues

(***************************************************************************)
(* Observation log.                                                        *)
(***************************************************************************)
Ev(kind, h, val, aux) == [kind |-> kind, h |-> h, val |-> val, aux |-> aux]

Log(s, kind, h, val, aux) == [s EXCEPT !.trace = Append(s.trace, Ev(kind, h, val, aux))]

(***************************************************************************)
(* VDeleter<T>.  A handle state s is [object, slot, trace].                *)
(***************************************************************************)

\* A release function that captured the value of the instance handle when the
\* callback handle was constructed, the instance handle being empty then.
deleterByValue(s, h, obj) == Log(s, "release", h, obj, VK_NULL_HANDLE)

\* The release function bound at construction: the call of vkDestroyXXX.
\* Only the callback handle was built with a context (the instance handle,
\* captured by reference): the context is read when the function runs.
deleter(s, h, obj) ==
    Log(s, "release", h, obj,
        IF h = "callback" THEN s.object["instance"] ELSE VK_NULL_HANDLE)

\* cleanup() that leaves the released value in the handle.
cleanupNoReset(s, h) ==
    IF s.object[h] # VK_NULL_HANDLE THEN deleter(s, h, s.object[h]) ELSE s

\* cleanup() without the test for the empty value.
cleanupUnguarded(s, h) ==
    [deleter(s, h, s.object[h]) EXCEPT !.object[h] = VK_NULL_HANDLE]

cleanup(s, h) ==
    LET d == IF s.object[h] # VK_NULL_HANDLE THEN deleter(s, h, s.object[h]) ELSE s
    IN  [d EXCEPT !.object[h] = VK_NULL_HANDLE]

\* replace() that hands out the address of some other handle's object.
replaceDetached(s, h) ==
    LET c == cleanup(Log(s, "replace", h, s.object[h], 0), h)
        other == IF h = "instance" THEN "device" ELSE "instance"
    IN  Log([c EXCEPT !.slot = other], "slot", other, c.object[other], 0)

\* T* replace(): the slot returned is the address of the handle's own object.
replace(s, h) ==
    LET c == cleanup(Log(s, "replace", h, s.object[h], 0), h)
    IN  Log([c EXCEPT !.slot = h], "slot", h, c.object[h], 0)

\* operator= without the comparison with the value held.
assignAlways(s, h, rhs) ==
    LET a == Log(s, "assign", h, rhs, s.object[h])
    IN  [cleanup(a, h) EXCEPT !.object[h] = rhs]

\* operator= that overwrites the value held without releasing it.
assignNoCleanup(s, h, rhs) ==
    LET a == Log(s, "assign", h, rhs, s.object[h])
    IN  [a EXCEPT !.object[h] = rhs]

\* void operator=(T rhs)
assign(s, h, rhs) ==
    LET a == Log(s, "assign", h, rhs, s.object[h])
    IN  IF rhs # a.object[h]
        THEN [cleanup(a, h) EXCEPT !.object[h] = rhs]
        ELSE a

\* A destructor that releases nothing.
destroyNoCleanup(s, h) == Log(s, "destroy", h, s.object[h], 0)

\* ~VDeleter()
destroy(s, h) == cleanup(Log(s, "destroy", h, s.object[h], 0), h)

\* The holder of the pointer returned by replace() stores v through it.
writeSlot(s, v) ==
    Log([s EXCEPT !.object[s.slot] = v, !.slot = NoSlot], "write", s.slot, v, 0)

\* The holder of the pointer returned by replace() stores nothing.
dropSlot(s) == [s EXCEPT !.slot = NoSlot]

HState == [object |-> object, slot |-> slot, trace |-> trace]

SetHState(s) ==
    /\ object' = s.object
    /\ slot' = s.slot
    /\ trace' = s.trace

OpKinds == {"assign", "replace", "destroy"}

IsOp(e) == e.kind \in OpKinds

NumOps(t) == Len(SelectSeq(t, IsOp))

\* The variables of the program that the drivers of single components leave alone.
AppIdle ==
    /\ enableValidationLayers = FALSE
    /\ requiredLayers = validationLayers
    /\ availableLayers = << >>
    /\ devices = << >>
    /\ queueFamilies = << >>
    /\ physicalDevice = VK_NULL_HANDLE
    /\ window = "none"
    /\ shouldClose = FALSE
    /\ error = ""
    /\ exitStatus = NoStatus

AppUnchanged ==
    UNCHANGED <<enableValidationLayers, requiredLayers, availableLayers, devices, queueFamilies,
                physicalDevice, window, shouldClose, error, exitStatus>>

(***************************************************************************)
(* Queue families and physical devices.                                    *)
(***************************************************************************)

\* a & b on non-negative integers.
RECURSIVE BitAnd(_, _)
BitAnd(a, b) ==
    IF a = 0 \/ b = 0 THEN 0
    ELSE (a % 2) * (b % 2) + 2 * BitAnd(a \div 2, b \div 2)

\* QueueFamilyIndices::isComplete
isComplete(indices) == indices.graphicsFamily >= 0

\* The loop of findQueueFamilies without its break: the last match wins.
RECURSIVE scanFamiliesNoBreak(_, _, _, _)
scanFamiliesNoBreak(families, k, i, indices) ==
    IF k > Len(families) THEN indices
    ELSE scanFamiliesNoBreak(families, k + 1, i + 1,
             IF /\ families[k].queueCount > 0
                /\ BitAnd(families[k].queueFlags, VK_QUEUE_GRAPHICS_BIT) # 0
             THEN [indices EXCEPT !.graphicsFamily = i]
             ELSE indices)

\* The loop of findQueueFamilies: families[k] is the element visited, i the
\* counter of the loop.
RECURSIVE scanFamilies(_, _, _, _)
scanFamilies(families, k, i, indices) ==
    IF k > Len(families) THEN indices
    ELSE LET found == IF /\ families[k].queueCount > 0
                         /\ BitAnd(families[k].queueFlags, VK_QUEUE_GRAPHICS_BIT) # 0
                      THEN [indices EXCEPT !.graphicsFamily = i]
                      ELSE indices
         IN  IF isComplete(found) THEN found
             ELSE scanFamilies(families, k + 1, i + 1, found)

\* findQueueFamilies(device), qf being what the driver reports per device.
findQueueFamilies(qf, device) ==
    scanFamilies(qf[device], 1, 0, [graphicsFamily |-> NotFound])

\* The loop of pickPhysicalDevice with an isDeviceSuitable that accepts every
\* device.
scanDevicesAcceptAll(a, devs, qf, k) ==
    IF k > Len(devs) THEN a
    ELSE [Log(a, "isDeviceSuitable", "", devs[k], 0) EXCEPT !.physicalDevice = devs[k]]

\* The loop of pickPhysicalDevice without its break: the last suitable
\* device wins.
RECURSIVE scanDevicesNoBreak(_, _, _, _)
scanDevicesNoBreak(a, devs, qf, k) ==
    IF k > Len(devs) THEN a
    ELSE LET indices == findQueueFamilies(qf, devs[k])
             b == Log(a, "isDeviceSuitable", "", devs[k], indices.graphicsFamily)
         IN  scanDevicesNoBreak(
                 IF isComplete(indices) THEN [b EXCEPT !.physicalDevice = devs[k]] ELSE b,
                 devs, qf, k + 1)

\* The loop of pickPhysicalDevice over the enumerated devices; a is
\* [physicalDevice, trace, error].  Each call of isDeviceSuitable is logged
\* with the device and the family index findQueueFamilies found for it.
RECURSIVE scanDevices(_, _, _, _)
scanDevices(a, devs, qf, k) ==
    IF k > Len(devs) THEN a
    ELSE LET indices == findQueueFamilies(qf, devs[k])
             b == Log(a, "isDeviceSuitable", "", devs[k], indices.graphicsFamily)
         IN  IF isComplete(indices)
             THEN [b EXCEPT !.physicalDevice = devs[k]]
             ELSE scanDevices(b, devs, qf, k + 1)

NoDevices == "failed to find GPUs with Vilkan support!"
NoSuitableDevice == "no Vulkan supporting GPU can do what you need!"

\* pickPhysicalDevice without the test of the device count.
pickPhysicalDeviceNoCountCheck(a, devs, qf) ==
    LET r == scanDevices(Log(a, "pickPhysicalDevice", "", Len(devs), 0), devs, qf, 1)
    IN  IF r.physicalDevice = VK_NULL_HANDLE
        THEN [r EXCEPT !.error = NoSuitableDevice]
        ELSE r

\* pickPhysicalDevice(); error is the message thrown, "" on a normal return.
pickPhysicalDevice(a, devs, qf) ==
    LET c == Log(a, "pickPhysicalDevice", "", Len(devs), 0)
    IN  IF Len(devs) = 0 THEN [c EXCEPT !.error = NoDevices]
        ELSE LET r == scanDevices(c, devs, qf, 1)
             IN  IF r.physicalDevice = VK_NULL_HANDLE
                 THEN [r EXCEPT !.error = NoSuitableDevice]
                 ELSE r

\* The sequences of at most n elements of S.
SeqsUpTo(S, n) == UNION {[1..m -> S] : m \in 0..n}

QueueCounts == {0, 1, 2}
QueueFlagValues == 0..3     \* every combination of the graphics and compute bits

QueueFamilyProperties == [queueCount : QueueCounts, queueFlags : QueueFlagValues]

(***************************************************************************)
(* SpecQuery: findQueueFamilies on one device with any family list.        *)
(***************************************************************************)
InitQuery ==
    /\ pc = "query"
    /\ object = [h \in Handles |-> VK_NULL_HANDLE]
    /\ alive = {}
    /\ slot = NoSlot
    /\ trace = << >>
    /\ enableValidationLayers = FALSE
    /\ requiredLayers = validationLayers
    /\ availableLayers = << >>
    /\ devices = <<1>>
    /\ \E families \in SeqsUpTo(QueueFamilyProperties, MaxFamilies) :
          queueFamilies = << families >>
    /\ physicalDevice = VK_NULL_HANDLE
    /\ window = "none"
    /\ shouldClose = FALSE
    /\ error = ""
    /\ exitStatus = NoStatus

FindQueueFamilies ==
    /\ pc = "query"
    /\ pc' = "queried"
    /\ trace' = Append(trace, Ev("findQueueFamilies", "", devices[1],
                                 findQueueFamilies(queueFamilies, devices[1]).graphicsFamily))
    /\ UNCHANGED <<object, alive, slot>>
    /\ AppUnchanged

NextQuery == FindQueueFamilies

SpecQuery == InitQuery /\ [][NextQuery]_vars

(***************************************************************************)
(* Spec: the program.  main() constructs the application (its three        *)
(* handles empty), runs it, and returns; the handles are destroyed as the  *)
(* application object goes out of scope.                                   *)
(***************************************************************************)

\* The loop of checkValidationLayerSupport with layerFound declared outside
\* it, so that it is not reset for the next required name.
RECURSIVE layersFoundSticky(_, _, _)
layersFoundSticky(required, available, k) ==
    IF k > Len(required) THEN TRUE
    ELSE LET layerFound == \E m \in 1..k : \E j \in DOMAIN available :
                               available[j] = required[m]
         IN  IF ~layerFound THEN FALSE
             ELSE layersFoundSticky(required, available, k + 1)

\* The loop of checkValidationLayerSupport over the required names, from
\* the k-th on; strcmp(a, b) == 0 is equality of the names.
RECURSIVE layersFound(_, _, _)
layersFound(required, available, k) ==
    IF k > Len(required) THEN TRUE
    ELSE LET layerFound == \E j \in DOMAIN available : available[j] = required[k]
         IN  IF ~layerFound THEN FALSE
             ELSE layersFound(required, available, k + 1)

\* The number of required names the loop of checkValidationLayerSupport has
\* compared with the available ones when it returns.
RECURSIVE layersExamined(_, _, _)
layersExamined(required, available, k) ==
    IF k > Len(required) THEN Len(required)
    ELSE LET layerFound == \E j \in DOMAIN available : available[j] = required[k]
         IN  IF ~layerFound THEN k
             ELSE layersExamined(required, available, k + 1)

checkValidationLayerSupport(available) == layersFound(validationLayers, available, 1)

LayerNames == {"VK_LAYER_LUNARG_standard_validation", "VK_LAYER_LUNARG_api_dump"}

\* The non-null handles the creating calls of the API may return.
ApiHandles == {1, 2}

\* The family lists a device of the program may report: up to two of a
\* family with the graphics bit and no queue, a family with the graphics
\* bit and a queue, and a family with queues and the compute bit only.
SampleFamilies ==
    { [queueCount |-> 0, queueFlags |-> VK_QUEUE_GRAPHICS_BIT],
      [queueCount |-> 1, queueFlags |-> VK_QUEUE_GRAPHICS_BIT],
      [queueCount |-> 2, queueFlags |-> VK_QUEUE_COMPUTE_BIT] }

DeviceFamilyLists ==
    {<< >>} \cup {<<f>> : f \in SampleFamilies}
            \cup {<<f, g>> : f \in SampleFamilies, g \in SampleFamilies}

LayersMissing == "validation layers requested, but not available!"
InstanceFailed == "failed to create instance!"
CallbackFailed == "failed to set up debug callback!"
DeviceFailed == "failed to create logical device!"

VK_SUCCESS == 0
VK_FAILURE == 1     \* any VkResult other than VK_SUCCESS

Init ==
    /\ pc = "initWindow"
    /\ object = [h \in Handles |-> VK_NULL_HANDLE]
    /\ alive = Handles
    /\ slot = NoSlot
    /\ trace = << >>
    /\ enableValidationLayers \in BOOLEAN
    /\ requiredLayers = validationLayers
    /\ availableLayers = << >>
    /\ devices = << >>
    /\ queueFamilies = << >>
    /\ physicalDevice = VK_NULL_HANDLE
    /\ window = "none"
    /\ shouldClose = FALSE
    /\ error = ""
    /\ exitStatus = NoStatus

\* throw std::runtime_error(msg)
Throw(msg) ==
    /\ error' = msg
    /\ pc' = "thrown"

InitWindow ==
    /\ pc = "initWindow"
    /\ window' = "open"
    /\ trace' = Append(trace, Ev("initWindow", "", 0, 0))
    /\ pc' = "createInstance"
    /\ UNCHANGED <<object, alive, slot, enableValidationLayers, requiredLayers, availableLayers,
                   devices, queueFamilies, physicalDevice, shouldClose, error,
                   exitStatus>>

CreateInstance ==
    /\ pc = "createInstance"
    /\ LET entered == Log(HState, "createInstance", "", 0, 0)
       IN  IF enableValidationLayers
           THEN \E available \in SeqsUpTo(LayerNames, MaxLayers) :
                  LET supported == checkValidationLayerSupport(available)
                      checked == Log(entered, "checkValidationLayerSupport", "",
                                     IF supported THEN 1 ELSE 0, 0)
                  IN  /\ availableLayers' = available
                      /\ IF ~supported
                         THEN /\ SetHState(checked)
                              /\ Throw(LayersMissing)
                         ELSE \/ \E v \in ApiHandles :
                                   /\ SetHState(writeSlot(
                                          Log(replace(checked, "instance"),
                                              "vkCreateInstance", "", VK_SUCCESS, 0), v))
                                   /\ pc' = "setupDebugCallback"
                                   /\ UNCHANGED error
                              \/ /\ SetHState(dropSlot(
                                          Log(replace(checked, "instance"),
                                              "vkCreateInstance", "", VK_FAILURE, 0)))
                                 /\ Throw(InstanceFailed)
           ELSE /\ UNCHANGED availableLayers
                /\ \/ \E v \in ApiHandles :
                         /\ SetHState(writeSlot(
                                Log(replace(entered, "instance"),
                                    "vkCreateInstance", "", VK_SUCCESS, 0), v))
                         /\ pc' = "setupDebugCallback"
                         /\ UNCHANGED error
                   \/ /\ SetHState(dropSlot(
                                Log(replace(entered, "instance"),
                                    "vkCreateInstance", "", VK_FAILURE, 0)))
                      /\ Throw(InstanceFailed)
    /\ UNCHANGED <<alive, enableValidationLayers, requiredLayers, devices, queueFamilies,
                   physicalDevice, window, shouldClose, exitStatus>>

\* setupDebugCallback without its test of enableValidationLayers.
SetupDebugCallbackAlways ==
    /\ pc = "setupDebugCallback"
    /\ LET entered == Log(HState, "setupDebugCallback", "", 0, 0)
       IN  \/ \E v \in ApiHandles :
                /\ SetHState(writeSlot(
                       Log(replace(entered, "callback"),
                           "CreateDebugReportCallbackEXT", "", VK_SUCCESS,
                           object["instance"]), v))
                /\ pc' = "pickPhysicalDevice"
                /\ UNCHANGED error
           \/ /\ SetHState(dropSlot(
                       Log(replace(entered, "callback"),
                           "CreateDebugReportCallbackEXT", "", VK_FAILURE,
                           object["instance"])))
              /\ Throw(CallbackFailed)
    /\ UNCHANGED <<alive, enableValidationLayers, requiredLayers, availableLayers,
                   devices, queueFamilies, physicalDevice, window, shouldClose,
                   exitStatus>>

SetupDebugCallback ==
    /\ pc = "setupDebugCallback"
    /\ LET entered == Log(HState, "setupDebugCallback", "", 0, 0)
       IN  IF ~enableValidationLayers
           THEN /\ SetHState(entered)
                /\ pc' = "pickPhysicalDevice"
                /\ UNCHANGED error
           ELSE \/ \E v \in ApiHandles :
                     /\ SetHState(writeSlot(
                            Log(replace(entered, "callback"),
                                "CreateDebugReportCallbackEXT", "", VK_SUCCESS,
                                object["instance"]), v))
                     /\ pc' = "pickPhysicalDevice"
                     /\ UNCHANGED error
                \/ /\ SetHState(dropSlot(
                            Log(replace(entered, "callback"),
                                "CreateDebugReportCallbackEXT", "", VK_FAILURE,
                                object["instance"])))
                   /\ Throw(CallbackFailed)
    /\ UNCHANGED <<alive, enableValidationLayers, requiredLayers, availableLayers, devices,
                   queueFamilies, physicalDevice, window, shouldClose, exitStatus>>

PickPhysicalDevice ==
    /\ pc = "pickPhysicalDevice"
    /\ \E n \in 0..MaxDevices :
         \E qf \in [1..n -> DeviceFamilyLists] :
            LET devs == [i \in 1..n |-> i]
                r == pickPhysicalDevice(
                         [physicalDevice |-> physicalDevice, trace |-> trace,
                          error |-> ""], devs, qf)
            IN  /\ devices' = devs
                /\ queueFamilies' = qf
                /\ physicalDevice' = r.physicalDevice
                /\ trace' = r.trace
                /\ IF r.error # ""
                   THEN Throw(r.error)
                   ELSE /\ pc' = "createLogicalDevice"
                        /\ UNCHANGED error
    /\ UNCHANGED <<object, alive, slot, enableValidationLayers, requiredLayers, availableLayers,
                   window, shouldClose, exitStatus>>

CreateLogicalDevice ==
    /\ pc = "createLogicalDevice"
    /\ LET indices == findQueueFamilies(queueFamilies, physicalDevice)
           entered == Log(Log(HState, "createLogicalDevice", "", physicalDevice, 0),
                          "findQueueFamilies", "", physicalDevice,
                          indices.graphicsFamily)
       IN  \/ \E v \in ApiHandles :
                /\ SetHState(
                       Log(writeSlot(
                               Log(replace(entered, "device"), "vkCreateDevice", "",
                                   VK_SUCCESS, indices.graphicsFamily), v),
                           "vkGetDeviceQueue", "", v, indices.graphicsFamily))
                /\ pc' = "mainLoop"
                /\ UNCHANGED error
           \/ /\ SetHState(dropSlot(
                       Log(replace(entered, "device"), "vkCreateDevice", "",
                           VK_FAILURE, indices.graphicsFamily)))
              /\ Throw(DeviceFailed)
    /\ UNCHANGED <<alive, enableValidationLayers, requiredLayers, availableLayers, devices,
                   queueFamilies, physicalDevice, window, shouldClose, exitStatus>>

\* One iteration of the loop of mainLoop: glfwPollEvents may see the request
\* to close the window.
PollEvents ==
    /\ pc = "mainLoop"
    /\ ~shouldClose
    /\ shouldClose' \in BOOLEAN
    /\ UNCHANGED <<pc, object, alive, slot, trace, enableValidationLayers, requiredLayers,
                   availableLayers, devices, queueFamilies, physicalDevice, window,
                   error, exitStatus>>

\* A mainLoop whose loop condition is inverted: it polls while the window
\* should close and leaves when it should not.
LeaveMainLoopInverted ==
    /\ pc = "mainLoop"
    /\ ~shouldClose
    /\ window' = "destroyed"
    /\ trace' = Append(trace, Ev("glfwDestroyWindow", "", 0, 0))
    /\ pc' = "ran"
    /\ UNCHANGED <<object, alive, slot, enableValidationLayers, requiredLayers, availableLayers,
                   devices, queueFamilies, physicalDevice, shouldClose, error,
                   exitStatus>>

\* The end of mainLoop, and with it of run().
LeaveMainLoop ==
    /\ pc = "mainLoop"
    /\ shouldClose
    /\ window' = "destroyed"
    /\ trace' = Append(trace, Ev("glfwDestroyWindow", "", 0, 0))
    /\ pc' = "ran"
    /\ UNCHANGED <<object, alive, slot, enableValidationLayers, requiredLayers, availableLayers,
                   devices, queueFamilies, physicalDevice, shouldClose, error,
                   exitStatus>>

\* return EXIT_SUCCESS
ReturnSuccess ==
    /\ pc = "ran"
    /\ exitStatus' = << EXIT_SUCCESS >>
    /\ pc' = "teardown"
    /\ UNCHANGED <<object, alive, slot, trace, enableValidationLayers, requiredLayers,
                   availableLayers, devices, queueFamilies, physicalDevice, window,
                   shouldClose, error>>

\* A handler that ends the process itself, with exit(EXIT_FAILURE).
CatchExits ==
    /\ pc = "thrown"
    /\ trace' = Append(trace, Ev("catch", "", 0, 0))
    /\ exitStatus' = << EXIT_FAILURE >>
    /\ pc' = "exited"
    /\ UNCHANGED <<object, alive, slot, enableValidationLayers, requiredLayers,
                   availableLayers, devices, queueFamilies, physicalDevice, window,
                   shouldClose, error>>

\* A handler that reports the error and returns EXIT_SUCCESS.
CatchReturnsSuccess ==
    /\ pc = "thrown"
    /\ trace' = Append(trace, Ev("catch", "", 0, 0))
    /\ exitStatus' = << EXIT_SUCCESS >>
    /\ pc' = "teardown"
    /\ UNCHANGED <<object, alive, slot, enableValidationLayers, requiredLayers,
                   availableLayers, devices, queueFamilies, physicalDevice, window,
                   shouldClose, error>>

\* catch (const std::runtime_error& e): report and return EXIT_FAILURE
Catch ==
    /\ pc = "thrown"
    /\ trace' = Append(trace, Ev("catch", "", 0, 0))
    /\ exitStatus' = << EXIT_FAILURE >>
    /\ pc' = "teardown"
    /\ UNCHANGED <<object, alive, slot, enableValidationLayers, requiredLayers, availableLayers,
                   devices, queueFamilies, physicalDevice, window, shouldClose,
                   error>>

\* The position in Members of h.
MemberIndex(h) == CHOOSE i \in DOMAIN Members : Members[i] = h

\* Members destroyed in the order of their declaration.
nextToDestroyForward(live) ==
    CHOOSE h \in live : \A g \in live : MemberIndex(h) <= MemberIndex(g)

\* The member destroyed next as the application object goes out of scope:
\* members are destroyed in the reverse order of their declaration.
nextToDestroy(live) ==
    CHOOSE h \in live : \A g \in live : MemberIndex(g) <= MemberIndex(h)

DestroyMember ==
    /\ pc = "teardown"
    /\ alive # {}
    /\ SetHState(destroy(HState, nextToDestroy(alive)))
    /\ alive' = alive \ {nextToDestroy(alive)}
    /\ UNCHANGED pc
    /\ AppUnchanged

ExitProcess ==
    /\ pc = "teardown"
    /\ alive = {}
    /\ pc' = "exited"
    /\ UNCHANGED <<object, alive, slot, trace>>
    /\ AppUnchanged

Next ==
    \/ InitWindow
    \/ CreateInstance
    \/ SetupDebugCallback
    \/ PickPhysicalDevice
    \/ CreateLogicalDevice
    \/ PollEvents
    \/ LeaveMainLoop
    \/ ReturnSuccess
    \/ Catch
    \/ DestroyMember
    \/ ExitProcess

\* The statements the single thread of the program executes by itself. What
\* glfwPollEvents observes is the choice of the user, so PollEvents is left out.
Progress ==
    \/ InitWindow
    \/ CreateInstance
    \/ SetupDebugCallback
    \/ PickPhysicalDevice
    \/ CreateLogicalDevice
    \/ LeaveMainLoop
    \/ ReturnSuccess
    \/ Catch
    \/ DestroyMember
    \/ ExitProcess

Spec == Init /\ [][Next]_vars

\* The program with a thread that never stops before it has exited.
FairSpec == Spec /\ WF_vars(Progress)

(***************************************************************************)
(* SpecLayers: the loop of checkValidationLayerSupport on any list of      *)
(* required names and any list of available names.                         *)
(***************************************************************************)

\* The names of SpecLayers: the two of LayerNames and one that differs from
\* the first in its last character only.
LayerNamePool == LayerNames \cup {"VK_LAYER_LUNARG_standard_validatio"}

InitLayers ==
    /\ pc = "check"
    /\ object = [h \in Handles |-> VK_NULL_HANDLE]
    /\ alive = {}
    /\ slot = NoSlot
    /\ trace = << >>
    /\ enableValidationLayers = TRUE
    /\ requiredLayers \in SeqsUpTo(LayerNamePool, MaxRequired)
    /\ availableLayers \in SeqsUpTo(LayerNamePool, MaxAvailable)
    /\ devices = << >>
    /\ queueFamilies = << >>
    /\ physicalDevice = VK_NULL_HANDLE
    /\ window = "none"
    /\ shouldClose = FALSE
    /\ error = ""
    /\ exitStatus = NoStatus

\* A call of checkValidationLayerSupport; the log keeps what it returned
\* (1 for true) and how many required names it examined.
CheckLayers ==
    /\ pc = "check"
    /\ pc' = "checked"
    /\ trace' = Append(trace,
                   Ev("checkValidationLayerSupport", "",
                      IF layersFound(requiredLayers, availableLayers, 1) THEN 1 ELSE 0,
                      layersExamined(requiredLayers, availableLayers, 1)))
    /\ UNCHANGED <<object, alive, slot>>
    /\ AppUnchanged

NextLayers == CheckLayers

SpecLayers == InitLayers /\ [][NextLayers]_vars

(***************************************************************************)
(* SpecHandle: one handle and a client that assigns, replaces and writes   *)
(* the returned slot, and finally destroys the handle.                     *)
(***************************************************************************)
InitHandle ==
    /\ pc = "drive"
    /\ object = [h \in Handles |-> VK_NULL_HANDLE]
    /\ \E h \in Handles : alive = {h}
    /\ slot = NoSlot
    /\ trace = << >>
    /\ AppIdle

Assign ==
    /\ pc = "drive"
    /\ NumOps(trace) < MaxOps
    /\ \E h \in alive, rhs \in Values : SetHState(assign(HState, h, rhs))
    /\ UNCHANGED <<pc, alive>>
    /\ AppUnchanged

Replace ==
    /\ pc = "drive"
    /\ NumOps(trace) < MaxOps
    /\ \E h \in alive : SetHState(replace(HState, h))
    /\ pc' = "slot"
    /\ UNCHANGED alive
    /\ AppUnchanged

WriteSlot ==
    /\ pc = "slot"
    /\ \E v \in Values : SetHState(writeSlot(HState, v))
    /\ pc' = "drive"
    /\ UNCHANGED alive
    /\ AppUnchanged

DropSlot ==
    /\ pc = "slot"
    /\ SetHState(dropSlot(HState))
    /\ pc' = "drive"
    /\ UNCHANGED alive
    /\ AppUnchanged

Destroy ==
    /\ pc = "drive"
    /\ \E h \in alive :
          /\ SetHState(destroy(HState, h))
          /\ alive' = alive \ {h}
    /\ pc' = "destroyed"
    /\ AppUnchanged

NextHandle == Assign \/ Replace \/ WriteSlot \/ DropSlot \/ Destroy

SpecHandle == InitHandle /\ [][NextHandle]_vars

(***************************************************************************)
(* Reading the observation log.                                            *)
(***************************************************************************)
IsRelease(e) == e.kind = "release"

Count(t, Test(_)) == Len(SelectSeq(t, Test))

\* The index of the latest operation on a handle, 0 when there is none.
LastOp ==
    LET I == {i \in DOMAIN trace : IsOp(trace[i])}
    IN  IF I = {} THEN 0 ELSE CHOOSE i \in I : \A j \in I : j <= i

\* The events that follow index i.
After(i) == SubSeq(trace, i + 1, Len(trace))

\* The operations performed, as <<name, argument>>.
OpSeq ==
    LET ops == SelectSeq(trace, IsOp)
    IN  [i \in DOMAIN ops |->
            <<ops[i].kind, IF ops[i].kind = "assign" THEN ops[i].val ELSE 0>>]

\* The arguments of the calls of the release function, in order.
ReleasedValues ==
    LET rel == SelectSeq(trace, IsRelease)
    IN  [i \in DOMAIN rel |-> rel[i].val]

\* The value of handle h the operation e found held.
Prior(e) == IF e.kind = "assign" THEN e.aux ELSE e.val

\* e is a call of the release function of handle h on v.
Releases(e, h, v) == e.kind = "release" /\ e.h = h /\ e.val = v

\* e makes v the value handle h holds.
Acquires(e, h, v) ==
    \/ e.kind = "assign" /\ e.h = h /\ e.val = v /\ e.aux # v
    \/ e.kind = "write" /\ e.h = h /\ e.val = v

(***************************************************************************)
(* Claims about one scoped handle (SpecHandle).                            *)
(***************************************************************************)

\* C1: after any sequence of assign, replace-then-write and a final
\* destruction, the release function has been called with each value v at
\* most as often as v became the held value, and never with VK_NULL_HANDLE.
C1_ReleaseAtMostOncePerHeldValue ==
    /\ \A i \in DOMAIN trace :
          trace[i].kind = "release" => trace[i].val # VK_NULL_HANDLE
    /\ \A h \in Handles, v \in 1..NumValues :
          Count(trace, LAMBDA e : Releases(e, h, v))
              <= Count(trace, LAMBDA e : Acquires(e, h, v))

\* A destroyed handle that held the same value twice, once through the slot
\* of replace(), and released it twice.
C1_Witness ==
    /\ pc = "destroyed"
    /\ \E h \in Handles, v \in 1..NumValues :
          /\ Count(trace, LAMBDA e : Releases(e, h, v)) = 2
          /\ \E i \in DOMAIN trace : trace[i].kind = "write" /\ trace[i].val = v

\* C2: from the empty handle, assign(v) then destruction calls the release
\* function exactly once, with v; assign(v) twice calls it not at all, and
\* assign(v) twice then destruction at most once.
C2_AssignThenDestroy ==
    \A v \in 1..NumValues :
        /\ OpSeq = << <<"assign", v>>, <<"destroy", 0>> >>
              => ReleasedValues = <<v>>
        /\ OpSeq = << <<"assign", v>>, <<"assign", v>> >>
              => ReleasedValues = << >>
        /\ OpSeq = << <<"assign", v>>, <<"assign", v>>, <<"destroy", 0>> >>
              => Len(ReleasedValues) <= 1

C2_Witness ==
    /\ OpSeq = << <<"assign", 1>>, <<"assign", 1>>, <<"destroy", 0>> >>
    /\ ReleasedValues = <<1>>

\* C3, as claimed: every replace() calls the release function on the value it
\* found, the empty value included, before it returns the slot.
C3_ReplaceAlwaysReleases ==
    \A i \in DOMAIN trace :
        trace[i].kind = "replace" =>
            /\ i + 2 <= Len(trace)
            /\ Releases(trace[i + 1], trace[i].h, trace[i].val)
            /\ trace[i + 2].kind = "slot"

\* C3, amended: replace() calls the release function on the value it found,
\* before it returns the slot, exactly when that value is not empty; on an
\* empty handle it returns the slot without calling the release function.
C3_ReplaceReleasesNonEmpty ==
    \A i \in DOMAIN trace :
        trace[i].kind = "replace" =>
            IF trace[i].val # VK_NULL_HANDLE
            THEN /\ i + 2 <= Len(trace)
                 /\ Releases(trace[i + 1], trace[i].h, trace[i].val)
                 /\ trace[i + 2].kind = "slot"
            ELSE /\ i + 1 <= Len(trace)
                 /\ trace[i + 1].kind = "slot"

\* A replace() on an empty handle and a replace() on a handle holding a value.
C3_Witness ==
    /\ \E i \in DOMAIN trace :
          trace[i].kind = "replace" /\ trace[i].val = VK_NULL_HANDLE
    /\ \E i \in DOMAIN trace :
          trace[i].kind = "replace" /\ trace[i].val # VK_NULL_HANDLE

\* C4: when replace() returns, the handle is empty; a value v it held was
\* released exactly once during the call; the slot returned is the handle's
\* own object, so the value written through it is the value the handle
\* holds, and the one the next operation finds.
C4_ReplaceReturnsOwnEmptySlot ==
    \A i \in DOMAIN trace :
        trace[i].kind = "replace" =>
            LET h == trace[i].h
                p == trace[i].val
                j == IF p # VK_NULL_HANDLE THEN i + 2 ELSE i + 1
            IN  /\ j <= Len(trace)
                /\ trace[j] = Ev("slot", h, VK_NULL_HANDLE, 0)
                /\ p # VK_NULL_HANDLE => Releases(trace[i + 1], h, p)
                /\ j = Len(trace) =>
                      /\ object[h] = VK_NULL_HANDLE
                      /\ pc = "slot" => slot = h
                /\ (j < Len(trace) /\ trace[j + 1].kind = "write") =>
                      /\ trace[j + 1].h = h
                      /\ j + 1 = Len(trace) => object[h] = trace[j + 1].val
                      /\ j + 1 < Len(trace) =>
                            Prior(trace[j + 2]) = trace[j + 1].val

\* A value written through the slot of a replace() that released another
\* value, and released by the destruction that followed.
C4_Witness ==
    \E i \in DOMAIN trace :
        /\ trace[i].kind = "replace" /\ trace[i].val = 1
        /\ i + 5 = Len(trace)
        /\ trace[i + 3] = Ev("write", trace[i].h, 2, 0)
        /\ trace[i + 4].kind = "destroy"
        /\ Releases(trace[i + 5], trace[i].h, 2)

\* C5: assign(w) on a handle holding u: when w # u, u is released first if it
\* is not empty, and nothing is released if it is, and the handle then holds
\* w; when w = u nothing is released and the handle still holds u.
C5_Assign ==
    LastOp # 0 /\ trace[LastOp].kind = "assign" =>
        LET h == trace[LastOp].h
            w == trace[LastOp].val
            u == trace[LastOp].aux
        IN  /\ object[h] = w
            /\ IF w # u /\ u # VK_NULL_HANDLE
               THEN /\ Len(After(LastOp)) = 1
                    /\ Releases(After(LastOp)[1], h, u)
               ELSE After(LastOp) = << >>

\* An assign of the empty value to a handle holding a value, which released
\* the value and left the handle empty.
C5_Witness ==
    /\ LastOp # 0
    /\ trace[LastOp].kind = "assign"
    /\ trace[LastOp].val = VK_NULL_HANDLE
    /\ trace[LastOp].aux # VK_NULL_HANDLE
    /\ Len(After(LastOp)) = 1
    /\ \A h \in Handles : object[h] = VK_NULL_HANDLE

\* C6: the destruction of a handle calls the release function exactly once,
\* on the value held at that moment, when that value is not empty, and calls
\* nothing when the handle is empty, whatever was done to the handle before.
C6_Destruction ==
    [][ pc = "drive" /\ pc' = "destroyed" =>
          \A h \in alive :
              LET d == Ev("destroy", h, object[h], 0)
              IN  /\ alive' = alive \ {h}
                  /\ object'[h] = VK_NULL_HANDLE
                  /\ trace' = IF object[h] # VK_NULL_HANDLE
                              THEN trace \o << d, Ev("release", h, object[h],
                                                     trace'[Len(trace')].aux) >>
                              ELSE Append(trace, d) ]_vars

\* A handle destroyed while it held a value written through a slot.
C6_Witness ==
    /\ pc = "destroyed"
    /\ Len(trace) >= 4
    /\ trace[Len(trace)].kind = "release"
    /\ trace[Len(trace) - 1].kind = "destroy"
    /\ trace[Len(trace) - 2].kind = "write"

(***************************************************************************)
(* Claims about the selection of the queue family and of the device.       *)
(***************************************************************************)

\* f has a queue and the graphics capability flag.
Qualifies(f) ==
    f.queueCount # 0 /\ (f.queueFlags \div VK_QUEUE_GRAPHICS_BIT) % 2 = 1

\* C8: findQueueFamilies(device) returns the lowest index, in the order the
\* driver reports the families, of a family with a queue and the graphics
\* flag, and -1 exactly when there is none (SpecQuery).
C8_LowestQualifyingFamily ==
    \A i \in DOMAIN trace :
        trace[i].kind = "findQueueFamilies" =>
            LET families == queueFamilies[trace[i].val]
                Q == {k \in DOMAIN families : Qualifies(families[k])}
                r == trace[i].aux
            IN  /\ (r = NotFound) <=> (Q = {})
                /\ Q # {} => /\ r + 1 \in Q
                             /\ \A k \in Q : r + 1 <= k

\* A family with the flag and no queue, then one with queues and no flag,
\* then two that qualify: the answer is the index of the first of these.
C8_Witness ==
    /\ pc = "queried"
    /\ queueFamilies[1] =
          << [queueCount |-> 0, queueFlags |-> VK_QUEUE_GRAPHICS_BIT],
             [queueCount |-> 2, queueFlags |-> VK_QUEUE_COMPUTE_BIT],
             [queueCount |-> 1, queueFlags |-> VK_QUEUE_GRAPHICS_BIT] >>
    /\ trace = << Ev("findQueueFamilies", "", 1, 2) >>

\* pickPhysicalDevice has been called.
Picked == \E i \in DOMAIN trace : trace[i].kind = "pickPhysicalDevice"

IsEvaluation(e) == e.kind = "isDeviceSuitable"

\* The devices isDeviceSuitable was called on, in order.
Evaluated ==
    LET ev == SelectSeq(trace, IsEvaluation)
    IN  [i \in DOMAIN ev |-> ev[i].val]

\* Some call of isDeviceSuitable returned true.
Accepted == \E i \in DOMAIN trace : IsEvaluation(trace[i]) /\ trace[i].aux >= 0

Suitable(d) == findQueueFamilies(queueFamilies, d).graphicsFamily >= 0

(***************************************************************************)
(* Claims about the program (Spec).                                        *)
(***************************************************************************)

\* C7: the release functions run in the reverse of the declaration order of
\* the handles: the device and the debug callback are released before the
\* instance, never after it, and the debug callback is released while the
\* instance handle still holds the instance.
C7_ReverseDeclarationOrder ==
    /\ \A i \in DOMAIN trace, j \in DOMAIN trace :
          (i < j /\ trace[i].kind = "destroy" /\ trace[j].kind = "destroy")
              => MemberIndex(trace[i].h) > MemberIndex(trace[j].h)
    /\ \A i \in DOMAIN trace, j \in DOMAIN trace :
          (i < j /\ trace[i].kind = "release" /\ trace[j].kind = "release")
              => MemberIndex(trace[i].h) > MemberIndex(trace[j].h)
    /\ \A i \in DOMAIN trace :
          (trace[i].kind = "release" /\ trace[i].h = "callback")
              => trace[i].aux # VK_NULL_HANDLE

\* A run that created the three objects and released all of them.
C7_Witness ==
    /\ pc = "exited"
    /\ LET rel == SelectSeq(trace, IsRelease)
       IN  /\ Len(rel) = 3
           /\ rel[1].h = "device"
           /\ rel[2].h = "callback"
           /\ rel[3].h = "instance"

\* C9: on a non-empty enumeration pickPhysicalDevice selects the first
\* device, in enumeration order, that isDeviceSuitable accepts, and calls
\* isDeviceSuitable on no device after that one.
C9_FirstSuitableDevice ==
    (Picked /\ devices # << >>) =>
        LET S == {k \in DOMAIN devices : Suitable(devices[k])}
        IN  S # {} =>
              LET first == CHOOSE k \in S : \A m \in S : k <= m
              IN  /\ physicalDevice = devices[first]
                  /\ Evaluated = SubSeq(devices, 1, first)

\* Two suitable devices: the first is selected, the second is not evaluated.
C9_Witness ==
    /\ Picked
    /\ Len(devices) = 2
    /\ \A k \in DOMAIN devices : Suitable(devices[k])
    /\ physicalDevice = devices[1]
    /\ Evaluated = << devices[1] >>

\* C10: pickPhysicalDevice throws the 'no devices' error, evaluating nothing,
\* on an empty enumeration; it throws the other, 'no suitable device' error
\* when it accepted none of a non-empty enumeration; it returns, and the
\* program goes on, only with a device accepted and selected.
C10_PickFailures ==
    Picked =>
        /\ NoDevices # NoSuitableDevice
        /\ devices = << >> => error = NoDevices /\ Evaluated = << >>
        /\ (devices # << >> /\ ~Accepted) => error = NoSuitableDevice
        /\ error \notin {NoDevices, NoSuitableDevice} =>
              Accepted /\ physicalDevice # VK_NULL_HANDLE
        /\ error \in {NoDevices, NoSuitableDevice} =>
              /\ pc \in {"thrown", "teardown", "exited"}
              /\ \A i \in DOMAIN trace : trace[i].kind # "createLogicalDevice"

\* Two devices, both evaluated, neither suitable.
C10_Witness ==
    /\ Picked
    /\ Len(devices) = 2
    /\ Len(Evaluated) = 2
    /\ ~Accepted
    /\ error = NoSuitableDevice
    /\ pc = "thrown"

(***************************************************************************)
(* Claims about the layer-support check (SpecLayers).                      *)
(***************************************************************************)

\* The names of a list.
Names(list) == {list[i] : i \in DOMAIN list}

\* s with its elements in the opposite order.
Reverse(s) == [i \in DOMAIN s |-> s[Len(s) + 1 - i]]

\* C11: checkValidationLayerSupport returns true exactly when every required
\* name is equal to some available name, whatever the order of the available
\* names, and it stops at the first required name that is missing.
C11_LayerSupport ==
    \A i \in DOMAIN trace :
        trace[i].kind = "checkValidationLayerSupport" =>
            LET missing == {k \in DOMAIN requiredLayers :
                               requiredLayers[k] \notin Names(availableLayers)}
                result == trace[i].val = 1
            IN  /\ result <=> (missing = {})
                /\ result <=> layersFound(requiredLayers, Reverse(availableLayers), 1)
                /\ missing = {} => trace[i].aux = Len(requiredLayers)
                /\ missing # {} =>
                      /\ trace[i].aux \in missing
                      /\ \A k \in missing : trace[i].aux <= k

\* Two required names found in the opposite order among the available ones.
C11_Witness ==
    /\ pc = "checked"
    /\ Len(requiredLayers) = 2
    /\ requiredLayers[1] # requiredLayers[2]
    /\ availableLayers = Reverse(requiredLayers)
    /\ trace = << Ev("checkValidationLayerSupport", "", 1, 2) >>

(***************************************************************************)
(* Claims about the control flow of the program (Spec).                    *)
(***************************************************************************)
StepKinds == {"initWindow", "createInstance", "setupDebugCallback",
              "pickPhysicalDevice", "createLogicalDevice"}

\* The events of the handler and of the teardown.
UnwindKinds == {"catch", "destroy", "release"}

\* The index of the latest event of a kind in K, 0 when there is none.
LastOf(K) ==
    LET I == {i \in DOMAIN trace : trace[i].kind \in K}
    IN  IF I = {} THEN 0 ELSE CHOOSE i \in I : \A j \in I : j <= i

\* The index of the latest event that is not of a kind in K.
LastNotOf(K) ==
    LET I == {i \in DOMAIN trace : trace[i].kind \notin K}
    IN  IF I = {} THEN 0 ELSE CHOOSE i \in I : \A j \in I : j <= i

Has(kind) == \E i \in DOMAIN trace : trace[i].kind = kind

\* e is the event in which the fatal condition reported as msg is detected.
Detects(e, msg) ==
    \/ msg = LayersMissing /\ e.kind = "checkValidationLayerSupport" /\ e.val = 0
    \/ msg = InstanceFailed /\ e.kind = "vkCreateInstance" /\ e.val # VK_SUCCESS
    \/ msg = CallbackFailed /\ e.kind = "CreateDebugReportCallbackEXT"
                            /\ e.val # VK_SUCCESS
    \/ msg = NoDevices /\ e.kind = "pickPhysicalDevice" /\ e.val = 0
    \/ msg = NoSuitableDevice /\ e.kind = "isDeviceSuitable" /\ e.aux < 0
    \/ msg = DeviceFailed /\ e.kind = "vkCreateDevice" /\ e.val # VK_SUCCESS

\* A fatal condition has been detected.
FatalDetected ==
    \/ \E i \in DOMAIN trace :
          \E msg \in {LayersMissing, InstanceFailed, CallbackFailed, NoDevices} :
              Detects(trace[i], msg)
    \/ Picked /\ devices # << >> /\ ~Accepted

\* C12: a fatal condition is signalled where it is detected: from then on no
\* initialization step and no iteration of the event loop is executed, the
\* error is caught in main, which returns a non-zero status, and the process
\* ends; with a required layer missing, vkCreateInstance is never called.
C12_FatalErrorsPropagate ==
    /\ FatalDetected => error # ""
    /\ error # "" =>
          /\ pc \in {"thrown", "teardown", "exited"}
          /\ Detects(trace[LastNotOf(UnwindKinds)], error)
          /\ window # "destroyed" /\ ~shouldClose
          /\ pc = "thrown" => exitStatus = NoStatus /\ ENABLED Catch
          /\ pc # "thrown" =>
                /\ Has("catch")
                /\ exitStatus = << EXIT_FAILURE >>
                /\ EXIT_FAILURE # 0
          /\ pc # "exited" => ENABLED Next
          /\ error = LayersMissing =>
                /\ ~Has("vkCreateInstance")
                /\ ~Has("replace")
                /\ object["instance"] = VK_NULL_HANDLE

\* A run that found the required layer missing and ended.
C12_Witness ==
    /\ pc = "exited"
    /\ error = LayersMissing
    /\ exitStatus = << EXIT_FAILURE >>

\* The value stored in handle h through the slot of its replace(), or
\* VK_NULL_HANDLE when nothing was stored.
Written(h) ==
    LET I == {i \in DOMAIN trace : trace[i].kind = "write" /\ trace[i].h = h}
    IN  IF I = {} THEN VK_NULL_HANDLE
        ELSE trace[CHOOSE i \in I : \A j \in I : j <= i].val

\* The calls of the release functions, as <<handle, value>>.
ReleasedPairs ==
    LET rel == SelectSeq(trace, IsRelease)
    IN  [i \in DOMAIN rel |-> << rel[i].h, rel[i].val >>]

\* What the teardown has to release: the populated handles with the values
\* stored in them, in the reverse of the declaration order.
RECURSIVE PopulatedFrom(_)
PopulatedFrom(k) ==
    IF k = 0 THEN << >>
    ELSE (IF Written(Members[k]) # VK_NULL_HANDLE
          THEN << << Members[k], Written(Members[k]) >> >>
          ELSE << >>) \o PopulatedFrom(k - 1)

\* C13: the release function of the debug-callback handle receives as its
\* context the value the instance handle holds when the release runs, the
\* instance created after the handle was constructed, not the empty value the
\* instance handle held at that construction.
C13_ContextReadAtRelease ==
    \A i \in DOMAIN trace :
        (trace[i].kind = "release" /\ trace[i].h = "callback") =>
            /\ trace[i].aux = Written("instance")
            /\ trace[i].aux # VK_NULL_HANDLE
            /\ \A j \in 1..i : ~(trace[j].kind = "release" /\ trace[j].h = "instance")

\* The callback 1 released with the instance 2 as its context.
C13_Witness ==
    \E i \in DOMAIN trace :
        trace[i] = Ev("release", "callback", 1, 2) /\ Written("instance") = 2

\* C15: a run that fails still releases, before the process ends, each handle
\* populated before the error exactly once and in the reverse of the
\* declaration order, and releases nothing for a handle never populated.
C15_TeardownOnError ==
    error # "" =>
        /\ pc = "exited" =>
              /\ ReleasedPairs = PopulatedFrom(Len(Members))
              /\ alive = {}
              /\ \A h \in Handles : object[h] = VK_NULL_HANDLE
        /\ pc # "exited" =>
              /\ pc = "teardown" \/ ReleasedPairs = << >>
              /\ \E n \in 0..Len(ReleasedPairs) :
                    ReleasedPairs = SubSeq(PopulatedFrom(Len(Members)), 1, n)

\* A run that created the instance and the debug callback, found no suitable
\* device and released the callback, then the instance.
C15_Witness ==
    /\ pc = "exited"
    /\ error = NoSuitableDevice
    /\ Len(ReleasedPairs) = 2
    /\ ReleasedPairs[1][1] = "callback"
    /\ ReleasedPairs[2][1] = "instance"

\* C16: createLogicalDevice runs with a device selected, and the family index
\* it passes to vkCreateDevice and to vkGetDeviceQueue is the lowest index of
\* a qualifying family of that device, never the not-found value -1.
C16_QueueFamilyIndexValid ==
    /\ pc = "createLogicalDevice" =>
          physicalDevice # VK_NULL_HANDLE /\ physicalDevice \in DOMAIN queueFamilies
    /\ \A i \in DOMAIN trace :
          /\ trace[i].kind = "createLogicalDevice" =>
                trace[i].val # VK_NULL_HANDLE /\ trace[i].val = physicalDevice
          /\ trace[i].kind \in {"vkCreateDevice", "vkGetDeviceQueue"} =>
                LET families == queueFamilies[physicalDevice]
                    Q == {k \in DOMAIN families : Qualifies(families[k])}
                IN  /\ trace[i].aux >= 0
                    /\ trace[i].aux # NotFound
                    /\ trace[i].aux + 1 \in Q
                    /\ \A k \in Q : trace[i].aux + 1 <= k

\* The second device selected, its second family being the first to qualify.
C16_Witness ==
    /\ physicalDevice = 2
    /\ \E i \in DOMAIN trace : trace[i].kind = "vkCreateDevice" /\ trace[i].aux = 1
    /\ \E i \in DOMAIN trace : trace[i].kind = "vkGetDeviceQueue" /\ trace[i].aux = 1

\* C17: with the validation layers disabled the layer check is not performed
\* and cannot fail, no debug callback is created, the callback handle stays
\* empty and its release function is never called; with them enabled the
\* debug callback is created only after vkCreateInstance succeeded.
C17_ValidationLayersSwitch ==
    /\ ~enableValidationLayers =>
          /\ ~Has("checkValidationLayerSupport")
          /\ ~Has("CreateDebugReportCallbackEXT")
          /\ error \notin {LayersMissing, CallbackFailed}
          /\ object["callback"] = VK_NULL_HANDLE
          /\ \A i \in DOMAIN trace :
                trace[i].h = "callback" => trace[i] = Ev("destroy", "callback", 0, 0)
    /\ \A i \in DOMAIN trace :
          trace[i].kind = "CreateDebugReportCallbackEXT" =>
              /\ enableValidationLayers
              /\ trace[i].aux # VK_NULL_HANDLE
              /\ \E j \in 1..i : /\ trace[j].kind = "vkCreateInstance"
                                 /\ trace[j].val = VK_SUCCESS
                                 /\ trace[j + 1] = Ev("write", "instance", trace[i].aux, 0)

\* A complete run with the validation layers disabled.
C17_Witness ==
    /\ ~enableValidationLayers
    /\ pc = "exited"
    /\ error = ""
    /\ Has("setupDebugCallback")
    /\ Len(ReleasedPairs) = 2

\* What holds of the event loop and of the run after it in every state.
C14_LoopSafety ==
    /\ pc = "mainLoop" =>
          /\ error = "" /\ exitStatus = NoStatus /\ window # "destroyed"
          /\ \A i \in DOMAIN trace : trace[i].kind \notin UnwindKinds
          /\ alive = Handles
          /\ object["instance"] # VK_NULL_HANDLE /\ object["device"] # VK_NULL_HANDLE
          /\ ~shouldClose => ENABLED PollEvents /\ ~ENABLED LeaveMainLoop
          /\ shouldClose => ENABLED LeaveMainLoop
    /\ (pc \in {"ran", "teardown", "exited"} /\ error = "") =>
          /\ shouldClose /\ window = "destroyed"
          /\ \A i \in DOMAIN trace : \A j \in DOMAIN trace :
                (trace[i].kind = "glfwDestroyWindow" /\ trace[j].kind \in UnwindKinds)
                    => i < j
          /\ pc = "ran" => exitStatus = NoStatus
          /\ pc # "ran" => exitStatus = << EXIT_SUCCESS >> /\ EXIT_SUCCESS = 0
          /\ pc = "exited" =>
                /\ ReleasedPairs = PopulatedFrom(Len(Members))
                /\ ReleasedPairs[1][1] = "device"
                /\ ReleasedPairs[Len(ReleasedPairs)][1] = "instance"
                /\ alive = {}

\* C14: after a successful initialization the event loop polls until the
\* close signal is observed and no handle is released while it runs; once the
\* close signal has occurred the loop returns, the window is destroyed and the
\* process ends with the exit status zero, every populated handle released
\* exactly once in the reverse of the declaration order.
C14_LoopThenCleanExit ==
    /\ []C14_LoopSafety
    /\ (pc = "mainLoop" /\ shouldClose) ~>
          (pc = "exited" /\ exitStatus = << EXIT_SUCCESS >> /\ window = "destroyed")

\* A run with the validation layers enabled that left the loop and released
\* the device, the debug callback and the instance.
C14_Witness ==
    /\ pc = "exited"
    /\ error = ""
    /\ shouldClose
    /\ exitStatus = << EXIT_SUCCESS >>
    /\ Len(ReleasedPairs) = 3
    /\ ReleasedPairs[2][1] = "callback"

====
